---- MODULE Spec2Model ----
(***************************************************************************)
(* Model of the GenerateVideos music-video generator.                      *)
(*                                                                         *)
(*   - the duration draw of MusicGenerator.generateMusic and the event     *)
(*     scheduler that _generateToneScript emits into the Tone.js script    *)
(*     (specification SchedSpec);                                          *)
(*   - the generate() pipeline of MusicVideoGenerator with its file system *)
(*     effects, for several requests in flight (specification Spec);       *)
(*   - the lookups by genre and the title-card fades of one request        *)
(*     (specification VisualSpec).                                         *)
(*                                                                         *)
(* Times are exact rationals <<num, den>> (seconds = num / den); the       *)
(* doubles of the program differ from them by at most one ulp.             *)
(***************************************************************************)
EXTENDS Integers, Sequences, FiniteSets, TLC

(***************************************************************************)
(* Genre template registry (MusicGenerator constructor).                   *)
(***************************************************************************)
Genres == {"electronic", "ambient", "hiphop", "pop", "techno"}

DurMin == 180
DurMax == 300

genreTemplates ==
  [g \in Genres |->
     CASE g = "electronic" ->
            [tempo |-> 128,
             scale |-> <<"C4", "D4", "E4", "G4", "A4", "C5">>,
             bassNotes |-> <<"C2", "G2", "A2", "F2">>,
             chords |-> << <<"C4", "E4", "G4">>, <<"G3", "B3", "D4">>,
                           <<"A3", "C4", "E4">>, <<"F3", "A3", "C4">> >>,
             duration |-> [min |-> DurMin, max |-> DurMax]]
       [] g = "ambient" ->
            [tempo |-> 80,
             scale |-> <<"C4", "D4", "F4", "G4", "A4", "C5", "D5">>,
             bassNotes |-> <<"C2", "F2", "G2">>,
             chords |-> << <<"C4", "E4", "G4", "B4">>, <<"F3", "A3", "C4", "E4">>,
                           <<"G3", "B3", "D4", "F4">> >>,
             duration |-> [min |-> DurMin, max |-> DurMax]]
       [] g = "hiphop" ->
            [tempo |-> 90,
             scale |-> <<"C4", "D4", "Eb4", "F4", "G4", "Ab4", "Bb4", "C5">>,
             bassNotes |-> <<"C2", "Eb2", "F2", "G2">>,
             chords |-> << <<"C4", "Eb4", "G4">>, <<"F3", "Ab3", "C4">>,
                           <<"G3", "Bb3", "D4">> >>,
             duration |-> [min |-> DurMin, max |-> DurMax]]
       [] g = "pop" ->
            [tempo |-> 120,
             scale |-> <<"C4", "D4", "E4", "F4", "G4", "A4", "B4", "C5">>,
             bassNotes |-> <<"C2", "F2", "G2", "A2">>,
             chords |-> << <<"C4", "E4", "G4">>, <<"F3", "A3", "C4">>,
                           <<"G3", "B3", "D4">>, <<"A3", "C4", "E4">> >>,
             duration |-> [min |-> DurMin, max |-> DurMax]]
       [] OTHER ->
            [tempo |-> 140,
             scale |-> <<"C4", "D4", "F4", "G4", "A4", "C5">>,
             bassNotes |-> <<"C2", "C2", "D2", "F2">>,
             chords |-> << <<"C4", "F4", "G4">>, <<"D4", "F4", "A4">>,
                           <<"C4", "E4", "G4">>, <<"F3", "A3", "C4">> >>,
             duration |-> [min |-> DurMin, max |-> DurMax]]]

\* test.js forces the duration of the quick test.
TestDuration == 10

\* Number of seeds of the ambient random source the scheduler is run with.
MaxSeed == 1

\* Requests of generate() that may be in flight together.
Requests == {"r1", "r2"}

\* outputName arguments the callers pass to generate().
OutputNames == {"a", "b"}

\* genre arguments the callers pass to generate().
RequestGenres == {"electronic"}

\* Durations above duration.min that Math.random() is let to select.
MaxDurationOffset == 1

\* Highest frame index at which a frame write is let to fail.
MaxFailFrame == 1

\* genre arguments given to the lookups: the registered names, a name that
\* is no property at all and a name every object inherits.
GenreInputs == Genres \cup {"jazz", "constructor"}

\* Longest durationSeconds given to generateIntro and generateOutro.
MaxCardSeconds == 3

\* Math.random() values of the duration draw: the multiples of 2^-RandomBits
\* in [0, 1), and the MaxUlps largest doubles below 1 (1 - n * 2^-52).
RandomBits == 7
MaxUlps == 2

VARIABLES sGenre, sTemplate, sRandom, sDuration, sSeed, sLayer, events,
          patched, pc, args, musicMetadata, frameCount, child, enc, err, log, fs,
          vGenre, vSeconds, vStage, vTemplate, vStyle, vFrameNum,
          introOpacity, outroOpacity, vFiles,
          oName, oStep, oTouched

schedVars == <<sGenre, sTemplate, sRandom, sDuration, sSeed, sLayer, events>>
pipeVars == <<patched, pc, args, musicMetadata, frameCount, child, enc, err, log, fs>>
visVars == <<vGenre, vSeconds, vStage, vTemplate, vStyle, vFrameNum,
             introOpacity, outroOpacity, vFiles>>
nameVars == <<oName, oStep, oTouched>>
vars == <<schedVars, pipeVars, visVars, nameVars>>

(***************************************************************************)
(* Scheduling section of the generated script.                             *)
(***************************************************************************)
\* const beatDuration = 60 / tempo
beatDuration(tempo) == <<60, tempo>>

\* Math.floor(duration / beatDuration)
totalBeats(tempo, duration) == (duration * tempo) \div 60

\* i * beatDuration * k / m as an exact rational
BeatTime(tempo, i, k, m) == <<i * k * beatDuration(tempo)[1], m * beatDuration(tempo)[2]>>

\* time < duration, for a rational time and a whole duration
TimeBefore(t, duration) == t[1] < duration * t[2]

\* 0 <= time
TimeNonNeg(t) == t[1] >= 0

\* Math.floor(Math.random() * n) of the n-th draw of the random source
RandomIndex(seed, draw, n) == (seed + draw * (seed + 1) + draw \div n) % n

\* bassNotes[i % bassNotes.length]: undefined when the table is empty
NoteAt(notes, i) ==
  IF Len(notes) = 0 THEN <<"undefined">> ELSE <<notes[(i % Len(notes)) + 1]>>

\* chords[i % chords.length]: undefined when the table is empty
ChordAt(chords, i) ==
  IF Len(chords) = 0 THEN <<"undefined">> ELSE chords[(i % Len(chords)) + 1]

\* scale[Math.floor(Math.random() * scale.length)]: scale[0] of an empty table
\* is undefined
ScaleNote(scale, seed, draw) ==
  IF Len(scale) = 0 THEN <<"undefined">>
  ELSE <<scale[RandomIndex(seed, draw, Len(scale)) + 1]>>

\* Variant: the kick is scheduled on every beat
KickEventsEveryBeat(tpl, duration) ==
  {[role |-> "kick", time |-> BeatTime(tpl.tempo, i, 1, 1), pitch |-> <<"C1">>] :
     i \in 0 .. totalBeats(tpl.tempo, duration) - 1}

\* Kick drum pattern: for i < totalBeats, on even i only
KickEvents(tpl, duration) ==
  {[role |-> "kick", time |-> BeatTime(tpl.tempo, i, 1, 1), pitch |-> <<"C1">>] :
     i \in {b \in 0 .. totalBeats(tpl.tempo, duration) - 1 : b % 2 = 0}}

\* Hi-hat pattern: for i < totalBeats * 2, every half beat
HihatEvents(tpl, duration) ==
  {[role |-> "hihat", time |-> BeatTime(tpl.tempo, i, 1, 2), pitch |-> <<>>] :
     i \in 0 .. totalBeats(tpl.tempo, duration) * 2 - 1}

\* Variant: the bass pitch is taken one step further in the table
BassEventsShiftedPitch(tpl, duration) ==
  {[role |-> "bass", time |-> BeatTime(tpl.tempo, i, 4, 1),
    pitch |-> NoteAt(tpl.bassNotes, i + 1)] :
     i \in {c \in 0 .. totalBeats(tpl.tempo, duration) :
              c * 4 < totalBeats(tpl.tempo, duration)}}

\* Bass line: for i < totalBeats / 4 (a real-valued bound), every 4 beats
BassEvents(tpl, duration) ==
  {[role |-> "bass", time |-> BeatTime(tpl.tempo, i, 4, 1),
    pitch |-> NoteAt(tpl.bassNotes, i)] :
     i \in {c \in 0 .. totalBeats(tpl.tempo, duration) :
              c * 4 < totalBeats(tpl.tempo, duration)}}

\* Number of cycles of the melodic loop: i < totalBeats / 8 (real-valued bound)
MelodyCycles(tpl, duration) ==
  {c \in 0 .. totalBeats(tpl.tempo, duration) :
     c * 8 < totalBeats(tpl.tempo, duration)}

\* Melodic pattern: the chord of each cycle
ChordEvents(tpl, duration) ==
  {[role |-> "chord", time |-> BeatTime(tpl.tempo, i, 8, 1),
    pitch |-> ChordAt(tpl.chords, i)] :
     i \in MelodyCycles(tpl, duration)}

\* noteTime = time + j * beatDuration * 2 of melody note j of cycle i
MelodyNoteTime(tempo, i, j) == BeatTime(tempo, i * 8 + j * 2, 1, 1)

\* Variant: three melody notes per cycle
MelodyEventsThreeNotes(tpl, duration, seed) ==
  {[role |-> "melody", time |-> MelodyNoteTime(tpl.tempo, ij[1], ij[2]),
    pitch |-> ScaleNote(tpl.scale, seed, ij[1] * 4 + ij[2])] :
     ij \in MelodyCycles(tpl, duration) \X (0 .. 2)}

\* Melodic pattern: the 4 melody notes of each cycle
MelodyEvents(tpl, duration, seed) ==
  {[role |-> "melody", time |-> MelodyNoteTime(tpl.tempo, ij[1], ij[2]),
    pitch |-> ScaleNote(tpl.scale, seed, ij[1] * 4 + ij[2])] :
     ij \in MelodyCycles(tpl, duration) \X (0 .. 3)}

(***************************************************************************)
(* Paths (sequences of path components) and the file system.               *)
(***************************************************************************)
\* this.outputDir = path.join(__dirname, 'output'), an absolute path
outputDir == <<"/", "output">>

\* path.join(dir, name) for one path component: the result is normalized,
\* so '..' leads to the parent and '.' and '' lead nowhere
join(dir, name) ==
  IF name = ".." THEN (IF Len(dir) > 1 THEN SubSeq(dir, 1, Len(dir) - 1) ELSE dir)
  ELSE IF name \in {".", ""} THEN dir
  ELSE Append(dir, name)

\* path.basename(p) of a string given by its parts between the separators:
\* trailing separators are dropped, the last part is returned
RECURSIVE basename(_)
basename(parts) ==
  IF Len(parts) = 0 THEN ""
  ELSE IF parts[Len(parts)] = "" THEN basename(SubSeq(parts, 1, Len(parts) - 1))
  ELSE parts[Len(parts)]

\* path.dirname(p)
dirname(p) == SubSeq(p, 1, Len(p) - 1)

\* path.resolve(p): an absolute path is kept, a relative one is put under
\* the working directory
resolve(p) == IF Len(p) > 0 /\ Head(p) = "/" THEN p ELSE <<"/">> \o p

IsPrefix(d, p) == Len(d) <= Len(p) /\ SubSeq(p, 1, Len(d)) = d

\* Paths of generate()
projectDir(name) == join(outputDir, name)
framesDir(name) == join(projectDir(name), "frames")
introDir(name) == join(projectDir(name), "intro")
outroDir(name) == join(projectDir(name), "outro")
audioPath(name) == join(projectDir(name), "audio.wav")
videoPath(name) == join(outputDir, name \o ".mp4")

\* Path of generateMusic()
scriptPath(outputPath) == join(dirname(outputPath), "temp_music_script.js")

\* Paths of renderComplete() and concatenateVideos()
tempDir(outputPath) == join(dirname(outputPath), "temp_segments")
introPath(outputPath) == join(tempDir(outputPath), "intro.mp4")
mainPath(outputPath) == join(tempDir(outputPath), "main.mp4")
outroPath(outputPath) == join(tempDir(outputPath), "outro.mp4")
concatListPath(outputPath) == join(dirname(outputPath), "concat_list.txt")

Paths ==
  {outputDir} \cup
  UNION {{projectDir(n), framesDir(n), introDir(n), outroDir(n), audioPath(n),
          scriptPath(audioPath(n)), videoPath(n), tempDir(videoPath(n)),
          introPath(videoPath(n)), mainPath(videoPath(n)),
          outroPath(videoPath(n)), concatListPath(videoPath(n))} :
         n \in OutputNames}

\* File system entries.  A directory lists the frame images it holds as
\* runs <<[upto, by]>>: the frames below upto (and not below the upto of
\* the run before) were last written by request by.
Absent == [kind |-> "absent"]
Dir(r) == [kind |-> "dir", by |-> r, frames |-> <<>>]
File(r, d) == [kind |-> "file", by |-> r, data |-> d]

\* fs.existsSync(p)
existsSync(f, p) == f[p].kind # "absent"

\* fs.mkdirSync(p, { recursive: true })
mkdirSync(f, p, r) ==
  [q \in Paths |-> IF IsPrefix(q, p) /\ f[q].kind = "absent" THEN Dir(r) ELSE f[q]]

\* if (!fs.existsSync(dir)) fs.mkdirSync(dir, { recursive: true })
ensureDir(f, p, r) == IF existsSync(f, p) THEN f ELSE mkdirSync(f, p, r)

\* fs.unlinkSync(p) of an existing file
unlinkSync(f, p) == [f EXCEPT ![p] = Absent]

\* if (fs.existsSync(p)) fs.unlinkSync(p)
unlinkIfExists(f, p) == IF existsSync(f, p) THEN unlinkSync(f, p) ELSE f

\* fs.rmSync(p, { recursive: true, force: true })
rmSync(f, p) == [q \in Paths |-> IF IsPrefix(p, q) THEN Absent ELSE f[q]]

\* fs.writeFileSync(p, data); the caller checks CanWrite first (ENOENT)
CanWrite(f, p) == existsSync(f, dirname(p)) /\ f[p].kind # "dir"
writeFileSync(f, p, r, d) == [f EXCEPT ![p] = File(r, d)]

\* Frame images 0 .. k-1 written into directory p by request r
SelectRuns(runs, k) == SelectSeq(runs, LAMBDA s : s.upto > k)
writeFrames(f, p, r, k) ==
  IF k = 0 THEN f
  ELSE [f EXCEPT ![p].frames = <<[upto |-> k, by |-> r]>> \o SelectRuns(f[p].frames, k)]

\* Number of images an image sequence input reads from directory p
frameFiles(f, p) ==
  IF f[p].kind = "dir" /\ Len(f[p].frames) > 0
  THEN f[p].frames[Len(f[p].frames)].upto ELSE 0

(***************************************************************************)
(* Constants of the pipeline.                                              *)
(***************************************************************************)
\* VisualGenerator: this.fps = 30
fps == 30

\* generate(): generateIntro(genre, introDir, 3), generateOutro(genre, outroDir, 3)
IntroSeconds == 3
OutroSeconds == 3

\* Property names every object literal inherits from Object.prototype
ObjectPrototypeKeys ==
  {"constructor", "toString", "toLocaleString", "valueOf", "hasOwnProperty",
   "isPrototypeOf", "propertyIsEnumerable", "__proto__"}

Undefined == [undefined |-> TRUE]

\* table[key] of an object literal: an own property, else a member inherited
\* from Object.prototype (a function or an object), else undefined
Lookup(table, key) ==
  IF key \in DOMAIN table THEN table[key]
  ELSE IF key \in ObjectPrototypeKeys THEN [inherited |-> key]
  ELSE Undefined

\* a || b for values that are objects, functions or undefined
Or(a, b) == IF a = Undefined THEN b ELSE a

\* this.genreTemplates[genre] || this.genreTemplates.electronic
TemplateOf(genre) == Or(Lookup(genreTemplates, genre), genreTemplates["electronic"])

\* Values of Math.random(): doubles in [0, 1)
NoDraw == [kind |-> "none", n |-> 0]

RandomDraws ==
  [kind : {"dyadic"}, n : 0 .. 2 ^ RandomBits - 1]
    \cup [kind : {"nearOne"}, n : 1 .. MaxUlps]

\* x rounded to a multiple of u, ties to the even multiple: the rounding of
\* one double operation, in units of the result's ulp
RoundHalfEven(x, u) ==
  LET q == x \div u
      rem == x % u
  IN IF 2 * rem < u THEN q
     ELSE IF 2 * rem > u THEN q + 1
     ELSE IF q % 2 = 0 THEN q ELSE q + 1

\* Spacing of the doubles just below the whole number x >= 2, in units of 2^-52
UlpBelow(x) == 2 ^ (CHOOSE e \in 0 .. 20 : 2 ^ e <= x - 1 /\ x - 1 < 2 ^ (e + 1))

\* Variant: the product and the sum are taken without rounding
RandomDurationExact(tpl, rnd) ==
  IF rnd.kind = "dyadic"
  THEN tpl.duration.min + (rnd.n * (tpl.duration.max - tpl.duration.min)) \div 2 ^ RandomBits
  ELSE tpl.duration.max - 1

\* Math.floor(Math.random() * (max - min) + min) in double arithmetic.
\* For a dyadic draw the product and the sum are exact.  For a draw of
\* 1 - n * 2^-52 the product is (max - min) less q1 ulps and the sum is max
\* less q2 ulps, each rounded to nearest; the floor is max when q2 = 0.
RandomDuration(tpl, rnd) ==
  IF rnd.kind = "dyadic"
  THEN tpl.duration.min + (rnd.n * (tpl.duration.max - tpl.duration.min)) \div 2 ^ RandomBits
  ELSE LET span == tpl.duration.max - tpl.duration.min
           q1 == RoundHalfEven(span * rnd.n, UlpBelow(span))
           q2 == RoundHalfEven(q1 * UlpBelow(span), UlpBelow(tpl.duration.max))
       IN IF q2 = 0 THEN tpl.duration.max ELSE tpl.duration.max - 1

\* The durations generateMusic is run with in the pipeline
DurationChoices(tpl) ==
  {d \in tpl.duration.min .. tpl.duration.max :
     d <= tpl.duration.min + MaxDurationOffset}

\* The duration generateMusic may take: test.js replaces generateMusic by a
\* copy that differs in one line, const duration = 10
DurationOf(tpl, isPatched) ==
  IF isPatched THEN {TestDuration} ELSE DurationChoices(tpl)

\* Frame indexes at which a frame loop of n frames may throw
FailPoints(n) == {k \in 0 .. MaxFailFrame : k < n}

\* Outcomes of a frame loop of n frames: the frame that throws, or n
FrameOutcomes(n) == FailPoints(n) \cup {n}

\* Console lines of generate() and of the renderer, in the order of a run
\* that succeeds
CanonicalLog ==
  <<"STEP 1: Generating Music", "Music generated",
    "STEP 2: Generating Intro", "Intro generated",
    "STEP 3: Generating Main Visuals", "Visuals generated",
    "STEP 4: Generating Outro", "Outro generated",
    "STEP 5: Rendering Final Video",
    "Rendering intro section...", "Intro rendering complete!",
    "Rendering main content...", "Main content rendering complete!",
    "Rendering outro section...", "Outro rendering complete!",
    "Concatenating video segments...", "Concatenation complete!",
    "VIDEO GENERATION COMPLETE!">>

NoError == [stage |-> "none", frame |-> -1]
NoMusic == [duration |-> 0, tempo |-> 0]
NoFrames == [intro |-> 0, main |-> 0, outro |-> 0]

\* pc values at which a request runs from one resolved promise to the next
\* without returning to the event loop: no callback of another request runs
\* until it reaches a real asynchronous wait
MicrotaskPcs == {"genIntro", "genMain", "genOutro", "renderComplete"}

CanRun(r) == \A q \in Requests \ {r} : pc[q] \notin MicrotaskPcs

InFlight(r) == pc[r] \notin {"idle", "resolved", "rejected", "aborted"}

PipeInit ==
  /\ patched \in BOOLEAN
  /\ pc = [r \in Requests |-> "idle"]
  /\ args = [r \in Requests |-> [genre |-> "electronic", name |-> "a"]]
  /\ musicMetadata = [r \in Requests |-> NoMusic]
  /\ frameCount = [r \in Requests |-> NoFrames]
  /\ child = [r \in Requests |-> "none"]
  /\ enc = [r \in Requests |-> {}]
  /\ err = [r \in Requests |-> NoError]
  /\ log = [r \in Requests |-> <<>>]
  /\ fs = [p \in Paths |-> Absent]

\* generate() rejects: the catch block logs and rethrows
Reject(r, stage, frame) ==
  /\ pc' = [pc EXCEPT ![r] = "rejected"]
  /\ err' = [err EXCEPT ![r] = [stage |-> stage, frame |-> frame]]
  /\ enc' = [enc EXCEPT ![r] = {}]

(***************************************************************************)
(* generate() up to the first wait: directories, then generateMusic()      *)
(* writes the script and starts the child process.                         *)
(***************************************************************************)
SetupDirs(f, name, r) ==
  ensureDir(ensureDir(ensureDir(ensureDir(f, projectDir(name), r),
                                framesDir(name), r), introDir(name), r),
            outroDir(name), r)

Generate(r, genre, name, duration) ==
  /\ pc[r] = "idle"
  /\ CanRun(r)
  /\ duration \in DurationOf(TemplateOf(genre), patched)
  /\ args' = [args EXCEPT ![r] = [genre |-> genre, name |-> name]]
  /\ musicMetadata' = [musicMetadata EXCEPT
                         ![r] = [duration |-> duration, tempo |-> TemplateOf(genre).tempo]]
  /\ fs' = writeFileSync(SetupDirs(fs, name, r), scriptPath(audioPath(name)), r,
                         [duration |-> duration, outputPath |-> audioPath(name)])
  /\ log' = [log EXCEPT ![r] = <<"STEP 1: Generating Music">>]
  /\ pc' = [pc EXCEPT ![r] = "music"]
  /\ UNCHANGED <<frameCount, child, enc, err>>

(***************************************************************************)
(* The child process running the generated script.                         *)
(*   ok         the track is rendered and written, exit code 0             *)
(*   synthError rendering or writing throws inside generateMusic(); the    *)
(*              script ends with generateMusic().catch(console.error), so  *)
(*              the exit code is 0 and no audio file is written            *)
(*   crashed    the script cannot be loaded or run, exit code non-zero     *)
(***************************************************************************)
ChildOutcomes(f, script) ==
  IF ~existsSync(f, script) THEN {"crashed"}
  ELSE IF CanWrite(f, f[script].data.outputPath) THEN {"ok", "synthError", "crashed"}
  ELSE {"synthError", "crashed"}

ChildRun(r, outcome) ==
  /\ pc[r] = "music"
  /\ CanRun(r)
  /\ outcome \in ChildOutcomes(fs, scriptPath(audioPath(args[r].name)))
  /\ child' = [child EXCEPT ![r] = outcome]
  /\ fs' = IF outcome = "ok"
           THEN LET s == fs[scriptPath(audioPath(args[r].name))].data
                IN writeFileSync(fs, s.outputPath, r, [duration |-> s.duration])
           ELSE fs
  /\ pc' = [pc EXCEPT ![r] = "musicExit"]
  /\ UNCHANGED <<args, musicMetadata, frameCount, enc, err, log>>

\* execAsync resolved (exit code 0): unlink the script, return the metadata;
\* unlinkSync throws when the script is gone, and the catch block rethrows
MusicResolved(r) ==
  /\ pc[r] = "musicExit"
  /\ CanRun(r)
  /\ child[r] \in {"ok", "synthError"}
  /\ IF existsSync(fs, scriptPath(audioPath(args[r].name)))
     THEN /\ fs' = unlinkSync(fs, scriptPath(audioPath(args[r].name)))
          /\ log' = [log EXCEPT ![r] = Append(@, "Music generated")]
          /\ pc' = [pc EXCEPT ![r] = "genIntro"]
          /\ UNCHANGED <<err, enc>>
     ELSE /\ Reject(r, "music", -1)
          /\ UNCHANGED <<fs, log>>
  /\ UNCHANGED <<args, musicMetadata, frameCount, child>>

\* Variant: the catch block rethrows without unlinking the script
MusicRejectedKeepsScript(r) ==
  /\ pc[r] = "musicExit"
  /\ CanRun(r)
  /\ child[r] = "crashed"
  /\ Reject(r, "music", -1)
  /\ UNCHANGED <<args, musicMetadata, frameCount, child, log, fs>>

\* execAsync rejected (exit code non-zero): unlink the script if it exists, rethrow
MusicRejected(r) ==
  /\ pc[r] = "musicExit"
  /\ CanRun(r)
  /\ child[r] = "crashed"
  /\ fs' = unlinkIfExists(fs, scriptPath(audioPath(args[r].name)))
  /\ Reject(r, "music", -1)
  /\ UNCHANGED <<args, musicMetadata, frameCount, child, log>>

(***************************************************************************)
(* VisualGenerator: the three frame loops.  Each loop either writes every  *)
(* frame (k = totalFrames) or throws at frame k after writing 0 .. k-1.    *)
(***************************************************************************)
\* Variant: the frame loop also draws the frame at the end time
totalFramesInclusive(durationSeconds) == durationSeconds * fps + 1

\* Math.floor(durationSeconds * this.fps)
totalFrames(durationSeconds) == durationSeconds * fps

GenerateIntro(r, k) ==
  /\ pc[r] = "genIntro"
  /\ CanRun(r)
  /\ k \in FrameOutcomes(totalFrames(IntroSeconds))
  /\ fs' = writeFrames(ensureDir(fs, introDir(args[r].name), r),
                       introDir(args[r].name), r, k)
  /\ IF k = totalFrames(IntroSeconds)
     THEN /\ frameCount' = [frameCount EXCEPT ![r].intro = k]
          /\ log' = [log EXCEPT ![r] = @ \o <<"STEP 2: Generating Intro", "Intro generated">>]
          /\ pc' = [pc EXCEPT ![r] = "genMain"]
          /\ UNCHANGED <<err, enc>>
     ELSE /\ log' = [log EXCEPT ![r] = Append(@, "STEP 2: Generating Intro")]
          /\ Reject(r, "intro", k)
          /\ UNCHANGED frameCount
  /\ UNCHANGED <<args, musicMetadata, child>>

\* Variant: a frame that throws is skipped and the loop goes on
GenerateVisualsSkipsBadFrame(r, k) ==
  /\ pc[r] = "genMain"
  /\ CanRun(r)
  /\ k \in FrameOutcomes(totalFrames(musicMetadata[r].duration))
  /\ fs' = writeFrames(ensureDir(fs, framesDir(args[r].name), r),
                       framesDir(args[r].name), r,
                       totalFrames(musicMetadata[r].duration))
  /\ frameCount' = [frameCount EXCEPT ![r].main = totalFrames(musicMetadata[r].duration)]
  /\ log' = [log EXCEPT ![r] = @ \o <<"STEP 3: Generating Main Visuals", "Visuals generated">>]
  /\ pc' = [pc EXCEPT ![r] = "genOutro"]
  /\ err' = IF k = totalFrames(musicMetadata[r].duration) THEN err
            ELSE [err EXCEPT ![r] = [stage |-> "main", frame |-> k]]
  /\ UNCHANGED <<args, musicMetadata, child, enc>>

GenerateVisuals(r, k) ==
  /\ pc[r] = "genMain"
  /\ CanRun(r)
  /\ k \in FrameOutcomes(totalFrames(musicMetadata[r].duration))
  /\ fs' = writeFrames(ensureDir(fs, framesDir(args[r].name), r),
                       framesDir(args[r].name), r, k)
  /\ IF k = totalFrames(musicMetadata[r].duration)
     THEN /\ frameCount' = [frameCount EXCEPT ![r].main = k]
          /\ log' = [log EXCEPT ![r] = @ \o <<"STEP 3: Generating Main Visuals", "Visuals generated">>]
          /\ pc' = [pc EXCEPT ![r] = "genOutro"]
          /\ UNCHANGED <<err, enc>>
     ELSE /\ log' = [log EXCEPT ![r] = Append(@, "STEP 3: Generating Main Visuals")]
          /\ Reject(r, "main", k)
          /\ UNCHANGED frameCount
  /\ UNCHANGED <<args, musicMetadata, child>>

GenerateOutro(r, k) ==
  /\ pc[r] = "genOutro"
  /\ CanRun(r)
  /\ k \in FrameOutcomes(totalFrames(OutroSeconds))
  /\ fs' = writeFrames(ensureDir(fs, outroDir(args[r].name), r),
                       outroDir(args[r].name), r, k)
  /\ IF k = totalFrames(OutroSeconds)
     THEN /\ frameCount' = [frameCount EXCEPT ![r].outro = k]
          /\ log' = [log EXCEPT ![r] = @ \o <<"STEP 4: Generating Outro", "Outro generated">>]
          /\ pc' = [pc EXCEPT ![r] = "renderComplete"]
          /\ UNCHANGED <<err, enc>>
     ELSE /\ log' = [log EXCEPT ![r] = Append(@, "STEP 4: Generating Outro")]
          /\ Reject(r, "outro", k)
          /\ UNCHANGED frameCount
  /\ UNCHANGED <<args, musicMetadata, child>>

(***************************************************************************)
(* VideoRenderer.renderComplete                                            *)
(***************************************************************************)
Min(a, b) == IF a < b THEN a ELSE b
Max(a, b) == IF a < b THEN b ELSE a

\* Length of an encoded segment, in frame intervals (1/fps s): the longer
\* of its two streams
SegDuration(d) == Max(d.video, d.audio)

\* Variant: the segment files are unlinked, temp_segments is kept
RenderCleanupKeepsTempDir(f, outputPath) ==
  unlinkIfExists(unlinkIfExists(unlinkIfExists(f, introPath(outputPath)),
                                mainPath(outputPath)), outroPath(outputPath))

\* The four cleanup statements of renderComplete (after success and in catch)
RenderCleanup(f, outputPath) ==
  LET f1 == unlinkIfExists(f, introPath(outputPath))
      f2 == unlinkIfExists(f1, mainPath(outputPath))
      f3 == unlinkIfExists(f2, outroPath(outputPath))
  IN IF existsSync(f3, tempDir(outputPath)) THEN rmSync(f3, tempDir(outputPath)) ELSE f3

\* Variant: the main segment is listed first
SegmentPathsMainFirst(outputPath) ==
  <<mainPath(outputPath), introPath(outputPath), outroPath(outputPath)>>

\* [introPath, mainPath, outroPath], the argument of concatenateVideos
SegmentPaths(outputPath) ==
  <<introPath(outputPath), mainPath(outputPath), outroPath(outputPath)>>

\* videoPaths.map(p => `file '${path.resolve(p)}'`)
FileList(videoPaths) ==
  [i \in 1 .. Len(videoPaths) |-> [directive |-> "file", path |-> resolve(videoPaths[i])]]

\* Variant: renderIntro and renderMain are started without awaiting the first
RenderCompleteStartsTwoEncodes(r) ==
  /\ pc[r] = "renderComplete"
  /\ CanRun(r)
  /\ fs' = ensureDir(fs, tempDir(videoPath(args[r].name)), r)
  /\ log' = [log EXCEPT ![r] = @ \o <<"STEP 5: Rendering Final Video",
                                      "Rendering intro section...">>]
  /\ enc' = [enc EXCEPT ![r] = {"intro", "main"}]
  /\ pc' = [pc EXCEPT ![r] = "encIntro"]
  /\ UNCHANGED <<args, musicMetadata, frameCount, child, err>>

\* renderComplete up to the first wait: temp_segments, then renderIntro starts
RenderCompleteStart(r) ==
  /\ pc[r] = "renderComplete"
  /\ CanRun(r)
  /\ fs' = ensureDir(fs, tempDir(videoPath(args[r].name)), r)
  /\ log' = [log EXCEPT ![r] = @ \o <<"STEP 5: Rendering Final Video",
                                      "Rendering intro section...">>]
  /\ enc' = [enc EXCEPT ![r] = {"intro"}]
  /\ pc' = [pc EXCEPT ![r] = "encIntro"]
  /\ UNCHANGED <<args, musicMetadata, frameCount, child, err>>

\* Variant: the silent audio of the intro is cut at the length of the track
RenderIntroEndTrackLengthAudio(r) ==
  /\ pc[r] = "encIntro"
  /\ CanRun(r)
  /\ frameFiles(fs, introDir(args[r].name)) > 0
  /\ CanWrite(fs, introPath(videoPath(args[r].name)))
  /\ fs' = writeFileSync(fs, introPath(videoPath(args[r].name)), r,
             [video |-> Min(frameFiles(fs, introDir(args[r].name)), frameCount[r].intro),
              audio |-> musicMetadata[r].duration * fps, partial |-> FALSE])
  /\ log' = [log EXCEPT ![r] = @ \o <<"Intro rendering complete!",
                                      "Rendering main content...">>]
  /\ enc' = [enc EXCEPT ![r] = {"main"}]
  /\ pc' = [pc EXCEPT ![r] = "encMain"]
  /\ UNCHANGED <<args, musicMetadata, frameCount, child, err>>

\* renderIntro 'end': the images and anullsrc are cut at -t frameCount / fps;
\* then renderMain starts
RenderIntroEnd(r) ==
  /\ pc[r] = "encIntro"
  /\ CanRun(r)
  /\ frameFiles(fs, introDir(args[r].name)) > 0
  /\ CanWrite(fs, introPath(videoPath(args[r].name)))
  /\ fs' = writeFileSync(fs, introPath(videoPath(args[r].name)), r,
             [video |-> Min(frameFiles(fs, introDir(args[r].name)), frameCount[r].intro),
              audio |-> frameCount[r].intro, partial |-> FALSE])
  /\ log' = [log EXCEPT ![r] = @ \o <<"Intro rendering complete!",
                                      "Rendering main content...">>]
  /\ enc' = [enc EXCEPT ![r] = {"main"}]
  /\ pc' = [pc EXCEPT ![r] = "encMain"]
  /\ UNCHANGED <<args, musicMetadata, frameCount, child, err>>

\* renderMain 'end': images and audio.wav, cut at the shorter one (-shortest);
\* then renderOutro starts
RenderMainEnd(r) ==
  /\ pc[r] = "encMain"
  /\ CanRun(r)
  /\ frameFiles(fs, framesDir(args[r].name)) > 0
  /\ fs[audioPath(args[r].name)].kind = "file"
  /\ CanWrite(fs, mainPath(videoPath(args[r].name)))
  /\ LET shortest == Min(frameFiles(fs, framesDir(args[r].name)),
                         fs[audioPath(args[r].name)].data.duration * fps)
     IN fs' = writeFileSync(fs, mainPath(videoPath(args[r].name)), r,
                [video |-> shortest, audio |-> shortest, partial |-> FALSE])
  /\ log' = [log EXCEPT ![r] = @ \o <<"Main content rendering complete!",
                                      "Rendering outro section...">>]
  /\ enc' = [enc EXCEPT ![r] = {"outro"}]
  /\ pc' = [pc EXCEPT ![r] = "encOutro"]
  /\ UNCHANGED <<args, musicMetadata, frameCount, child, err>>

\* renderOutro 'end'; then concatenateVideos writes the list and starts ffmpeg
RenderOutroEnd(r) ==
  /\ pc[r] = "encOutro"
  /\ CanRun(r)
  /\ frameFiles(fs, outroDir(args[r].name)) > 0
  /\ CanWrite(fs, outroPath(videoPath(args[r].name)))
  /\ fs' = writeFileSync(
             writeFileSync(fs, outroPath(videoPath(args[r].name)), r,
               [video |-> Min(frameFiles(fs, outroDir(args[r].name)), frameCount[r].outro),
                audio |-> frameCount[r].outro, partial |-> FALSE]),
             concatListPath(videoPath(args[r].name)), r,
             FileList(SegmentPaths(videoPath(args[r].name))))
  /\ log' = [log EXCEPT ![r] = @ \o <<"Outro rendering complete!",
                                      "Concatenating video segments...">>]
  /\ enc' = [enc EXCEPT ![r] = {"concat"}]
  /\ pc' = [pc EXCEPT ![r] = "concat"]
  /\ UNCHANGED <<args, musicMetadata, frameCount, child, err>>

\* 'error' of renderIntro, renderMain or renderOutro: the promise rejects,
\* the catch block of renderComplete cleans up and rethrows
RenderSegmentError(r) ==
  /\ pc[r] \in {"encIntro", "encMain", "encOutro"}
  /\ CanRun(r)
  /\ fs' = RenderCleanup(fs, videoPath(args[r].name))
  /\ Reject(r, pc[r], -1)
  /\ UNCHANGED <<args, musicMetadata, frameCount, child, log>>

\* Segments a concat list names that ffmpeg can read whole
Readable(f, list) ==
  \A i \in 1 .. Len(list) :
    /\ list[i].path \in Paths
    /\ f[list[i].path].kind = "file"
    /\ ~f[list[i].path].data.partial

RECURSIVE SumDurations(_, _, _)
SumDurations(f, list, i) ==
  IF i > Len(list) THEN 0
  ELSE SegDuration(f[list[i].path].data) + SumDurations(f, list, i + 1)

\* Variant: the project directory is removed whatever remains in it
_cleanupTempFilesRemovesProjectDir(f, dir) ==
  LET rmIfExists(g, p) == IF existsSync(g, p) THEN rmSync(g, p) ELSE g
      f1 == rmIfExists(f, join(dir, "frames"))
      f2 == rmIfExists(f1, join(dir, "intro"))
      f3 == rmIfExists(f2, join(dir, "outro"))
      f4 == unlinkIfExists(f3, join(dir, "audio.wav"))
  IN rmIfExists(f4, dir)

\* generate()'s _cleanupTempFiles(projectDir)
_cleanupTempFiles(f, dir) ==
  LET rmIfExists(g, p) == IF existsSync(g, p) THEN rmSync(g, p) ELSE g
      f1 == rmIfExists(f, join(dir, "frames"))
      f2 == rmIfExists(f1, join(dir, "intro"))
      f3 == rmIfExists(f2, join(dir, "outro"))
      f4 == unlinkIfExists(f3, join(dir, "audio.wav"))
      remaining == {q \in Paths : dirname(q) = dir /\ existsSync(f4, q)}
  IN IF existsSync(f4, dir) /\ remaining = {} THEN rmSync(f4, dir) ELSE f4

\* concatenateVideos 'end' (stream copy of the listed segments into
\* outputPath), the rest of renderComplete and the rest of generate()
ConcatEnd(r) ==
  /\ pc[r] = "concat"
  /\ CanRun(r)
  /\ fs[concatListPath(videoPath(args[r].name))].kind = "file"
  /\ Readable(fs, fs[concatListPath(videoPath(args[r].name))].data)
  /\ LET out == videoPath(args[r].name)
         list == fs[concatListPath(out)].data
         f1 == writeFileSync(fs, out, r,
                 [duration |-> SumDurations(fs, list, 1), inputs |-> list,
                  partial |-> FALSE])
         f2 == unlinkIfExists(f1, concatListPath(out))
         f3 == RenderCleanup(f2, out)
     IN fs' = _cleanupTempFiles(f3, projectDir(args[r].name))
  /\ log' = [log EXCEPT ![r] = @ \o <<"Concatenation complete!",
                                      "VIDEO GENERATION COMPLETE!">>]
  /\ enc' = [enc EXCEPT ![r] = {}]
  /\ pc' = [pc EXCEPT ![r] = "resolved"]
  /\ UNCHANGED <<args, musicMetadata, frameCount, child, err>>

\* concatenateVideos 'error': ffmpeg may have written part of outputPath;
\* the handler unlinks the list, renderComplete cleans up and rethrows
ConcatError(r, partial) ==
  /\ pc[r] = "concat"
  /\ CanRun(r)
  /\ LET out == videoPath(args[r].name)
         f1 == IF partial
               THEN writeFileSync(fs, out, r,
                      [duration |-> 0, inputs |-> <<>>, partial |-> TRUE])
               ELSE fs
         f2 == unlinkIfExists(f1, concatListPath(out))
     IN fs' = RenderCleanup(f2, out)
  /\ Reject(r, "concat", -1)
  /\ UNCHANGED <<args, musicMetadata, frameCount, child, log>>

\* The process is interrupted (SIGINT, SIGTERM) while a request is in flight.
\* The source installs no signal handler and generate() has no finally
\* block: the process ends where it is, no statement of it runs any more.
Interrupt ==
  /\ \E r \in Requests : InFlight(r)
  /\ pc' = [q \in Requests |->
             IF pc[q] \in {"resolved", "rejected"} THEN pc[q] ELSE "aborted"]
  /\ UNCHANGED <<args, musicMetadata, frameCount, child, enc, err, log, fs>>

(***************************************************************************)
(* The path of one genre argument through generate(): the template lookup  *)
(* of generateMusic, the intro frames, the style lookup of generateVisuals *)
(* the main frames and the outro frames (specification VisualSpec).  Of    *)
(* the frames it keeps the opacity each title card is drawn with and the   *)
(* name of the file each frame is written to.                              *)
(***************************************************************************)
\* Variant: a style table that was not extended when techno was added
StyleGenresWithoutTechno == {"electronic", "ambient", "hiphop", "pop"}

\* The keys of the object literal styles of _getVisualStyle
StyleGenres == {"electronic", "ambient", "hiphop", "pop", "techno"}

\* const styles = { ... } of _getVisualStyle
styles ==
  [g \in StyleGenres |->
     CASE g = "electronic" ->
            [colors |-> <<"#00ffff", "#ff00ff", "#ffff00", "#00ff00">>,
             backgroundColor |-> "#000000", shapeType |-> "geometric",
             particleCount |-> 50, waveAmplitude |-> 100]
       [] g = "ambient" ->
            [colors |-> <<"#4a90e2", "#7b68ee", "#9370db", "#ba55d3">>,
             backgroundColor |-> "#0a0a1a", shapeType |-> "organic",
             particleCount |-> 30, waveAmplitude |-> 150]
       [] g = "hiphop" ->
            [colors |-> <<"#ff4500", "#ffa500", "#ffff00", "#ff6347">>,
             backgroundColor |-> "#1a1a1a", shapeType |-> "sharp",
             particleCount |-> 40, waveAmplitude |-> 80]
       [] g = "pop" ->
            [colors |-> <<"#ff1493", "#ff69b4", "#ffc0cb", "#ffb6c1">>,
             backgroundColor |-> "#ffffff", shapeType |-> "round",
             particleCount |-> 60, waveAmplitude |-> 120]
       [] OTHER ->
            [colors |-> <<"#ff0000", "#00ff00", "#0000ff", "#ffffff">>,
             backgroundColor |-> "#000000", shapeType |-> "geometric",
             particleCount |-> 70, waveAmplitude |-> 90]]

\* return styles[genre] || styles.electronic
_getVisualStyle(genre) == Or(Lookup(styles, genre), styles["electronic"])

\* const progress = frameNum / totalFrames, an exact rational <<num, den>>
progress(frameNum, total) == <<frameNum, total>>

\* a <= b for rationals with positive denominators
RatLeq(a, b) == a[1] * b[2] <= b[1] * a[2]

RatEq(a, b) == a[1] * b[2] = b[1] * a[2]

\* Variant: the fade-in is not clamped
IntroFadeUnclamped(p) == <<p[1] * 2, p[2]>>

\* const opacity = Math.min(progress * 2, 1)
IntroFade(p) ==
  IF RatLeq(<<p[1] * 2, p[2]>>, <<1, 1>>) THEN <<p[1] * 2, p[2]>> ELSE <<1, 1>>

\* const opacity = Math.max(1 - progress * 2, 0)
OutroFade(p) ==
  IF RatLeq(<<0, 1>>, <<p[2] - p[1] * 2, p[2]>>) THEN <<p[2] - p[1] * 2, p[2]>>
  ELSE <<0, 1>>

SchedIdle ==
  /\ sGenre = "electronic"
  /\ sTemplate = genreTemplates["electronic"]
  /\ sRandom = NoDraw
  /\ sDuration = TestDuration
  /\ sSeed = 0
  /\ sLayer = "kick"
  /\ events = {}

\* String(frameNum): the decimal digits of a frame number
RECURSIVE DecimalDigits(_)
DecimalDigits(n) == IF n < 10 THEN <<n>> ELSE Append(DecimalDigits(n \div 10), n % 10)

\* s.padStart(targetLength, padChar): a string that is long enough is kept
padStart(s, targetLength, padChar) ==
  IF Len(s) >= targetLength THEN s
  ELSE [i \in 1 .. targetLength - Len(s) |-> padChar] \o s

\* Variant: the files are numbered from 1
FrameFileNameOneBased(prefix, frameNum) ==
  [prefix |-> prefix, digits |-> padStart(DecimalDigits(frameNum + 1), 6, 0),
   ext |-> ".png"]

\* `${prefix}${String(frameNum).padStart(6, '0')}.png`
FrameFileName(prefix, frameNum) ==
  [prefix |-> prefix, digits |-> padStart(DecimalDigits(frameNum), 6, 0),
   ext |-> ".png"]

NoFiles == [intro |-> {}, main |-> {}, outro |-> {}]

\* outputName arguments of generate(), as the parts between the separators:
\* plain names, names with directories, names of '.' and '..', a trailing
\* separator, absolute paths, and <<>> for no name (null or '')
RawOutputNames ==
  {<<>>, <<"a">>, <<"x", "a">>, <<"..", "..", "etc">>, <<"..">>, <<".">>,
   <<"a", "..">>, <<"a", "">>, <<"", "">>, <<"", "tmp", "v">>}

NameIdle ==
  /\ oName = <<"a">>
  /\ oStep = 0
  /\ oTouched = {}

VisIdle ==
  /\ vFiles = NoFiles
  /\ vGenre = "electronic"
  /\ vSeconds = IntroSeconds
  /\ vStage = "music"
  /\ vTemplate = Undefined
  /\ vStyle = Undefined
  /\ vFrameNum = 0
  /\ introOpacity = <<>>
  /\ outroOpacity = <<>>

\* generateMusic: the template lookup; template.duration.max throws a
\* TypeError when the value found has no duration
LookupTemplate ==
  /\ vStage = "music"
  /\ vTemplate' = TemplateOf(vGenre)
  /\ vStage' = IF "duration" \in DOMAIN TemplateOf(vGenre) THEN "intro" ELSE "rejected"
  /\ UNCHANGED <<vGenre, vSeconds, vStyle, vFrameNum, introOpacity, outroOpacity, vFiles>>

\* One pass of the frame loop of generateIntro
DrawIntroFrame ==
  /\ vStage = "intro"
  /\ vFrameNum < totalFrames(vSeconds)
  /\ introOpacity' = Append(introOpacity,
                            IntroFade(progress(vFrameNum, totalFrames(vSeconds))))
  /\ vFiles' = [vFiles EXCEPT !.intro = @ \cup {FrameFileName("intro_", vFrameNum)}]
  /\ vFrameNum' = IF vFrameNum + 1 < totalFrames(vSeconds) THEN vFrameNum + 1 ELSE 0
  /\ vStage' = IF vFrameNum + 1 < totalFrames(vSeconds) THEN "intro" ELSE "main"
  /\ UNCHANGED <<vGenre, vSeconds, vTemplate, vStyle, outroOpacity>>

\* generateVisuals: the style lookup
GetVisualStyle ==
  /\ vStage = "main"
  /\ vStyle' = _getVisualStyle(vGenre)
  /\ vStage' = "frames"
  /\ UNCHANGED <<vGenre, vSeconds, vTemplate, vFrameNum, introOpacity, outroOpacity, vFiles>>

\* One pass of the frame loop of generateVisuals, for the duration test.js
\* gives the track
DrawFrame ==
  /\ vStage = "frames"
  /\ vFrameNum < totalFrames(TestDuration)
  /\ vFiles' = [vFiles EXCEPT !.main = @ \cup {FrameFileName("frame_", vFrameNum)}]
  /\ vFrameNum' = IF vFrameNum + 1 < totalFrames(TestDuration) THEN vFrameNum + 1 ELSE 0
  /\ vStage' = IF vFrameNum + 1 < totalFrames(TestDuration) THEN "frames" ELSE "outro"
  /\ UNCHANGED <<vGenre, vSeconds, vTemplate, vStyle, introOpacity, outroOpacity>>

\* One pass of the frame loop of generateOutro
DrawOutroFrame ==
  /\ vStage = "outro"
  /\ vFrameNum < totalFrames(vSeconds)
  /\ outroOpacity' = Append(outroOpacity,
                            OutroFade(progress(vFrameNum, totalFrames(vSeconds))))
  /\ vFiles' = [vFiles EXCEPT !.outro = @ \cup {FrameFileName("outro_", vFrameNum)}]
  /\ vFrameNum' = vFrameNum + 1
  /\ vStage' = IF vFrameNum + 1 < totalFrames(vSeconds) THEN "outro" ELSE "done"
  /\ UNCHANGED <<vGenre, vSeconds, vTemplate, vStyle, introOpacity>>

VisInit ==
  /\ vGenre \in GenreInputs
  /\ vSeconds \in 1 .. MaxCardSeconds
  /\ vStage = "music"
  /\ vTemplate = Undefined
  /\ vStyle = Undefined
  /\ vFrameNum = 0
  /\ introOpacity = <<>>
  /\ outroOpacity = <<>>
  /\ vFiles = NoFiles
  /\ NameIdle
  /\ SchedIdle
  /\ PipeInit
  /\ patched = FALSE

VisNext ==
  \/ LookupTemplate /\ UNCHANGED <<schedVars, pipeVars, nameVars>>
  \/ DrawIntroFrame /\ UNCHANGED <<schedVars, pipeVars, nameVars>>
  \/ GetVisualStyle /\ UNCHANGED <<schedVars, pipeVars, nameVars>>
  \/ DrawFrame /\ UNCHANGED <<schedVars, pipeVars, nameVars>>
  \/ DrawOutroFrame /\ UNCHANGED <<schedVars, pipeVars, nameVars>>

VisualSpec == VisInit /\ [][VisNext]_vars

(***************************************************************************)
(* The paths one request creates, writes and deletes for an outputName     *)
(* (specification NameSpec).                                               *)
(***************************************************************************)
\* outputName ? path.basename(outputName) : `music_video_${genre}_${timestamp}`
sanitizedName(outputName) ==
  IF Len(outputName) = 0 \/ outputName = <<"">> THEN "music_video"
  ELSE basename(outputName)

\* The paths of a request in the order generate() first creates or writes
\* them; _cleanupTempFiles and the renderer delete among the same paths
RequestPaths(name) ==
  <<projectDir(name), framesDir(name), introDir(name), outroDir(name),
    scriptPath(audioPath(name)), audioPath(name),
    tempDir(videoPath(name)), introPath(videoPath(name)),
    mainPath(videoPath(name)), outroPath(videoPath(name)),
    concatListPath(videoPath(name)), videoPath(name)>>

Touch ==
  /\ oTouched' = oTouched \cup {RequestPaths(sanitizedName(oName))[oStep + 1]}
  /\ oStep' = oStep + 1
  /\ UNCHANGED oName

\* generate(): [projectDir, framesDir, introDir, outroDir].forEach(mkdirSync)
CreateDirectory == oStep \in 0 .. 3 /\ Touch

\* generateMusic(): the script, then audio.wav written by the child
WriteMusicFile == oStep \in 4 .. 5 /\ Touch

\* renderComplete(): temp_segments, the three segments, the list, the video
WriteRenderFile == oStep \in 6 .. 11 /\ Touch

\* _cleanupTempFiles(projectDir): frames, intro, outro, audio.wav, and the
\* project directory when nothing remains in it
CleanupProject ==
  /\ oStep = 12
  /\ oTouched' = oTouched \cup
       {join(projectDir(sanitizedName(oName)), d) :
          d \in {"frames", "intro", "outro", "audio.wav"}}
       \cup {projectDir(sanitizedName(oName))}
  /\ oStep' = 13
  /\ UNCHANGED oName

NameInit ==
  /\ oName \in RawOutputNames
  /\ oStep = 0
  /\ oTouched = {}
  /\ SchedIdle
  /\ PipeInit
  /\ patched = FALSE
  /\ VisIdle

NameNext ==
  \/ CreateDirectory /\ UNCHANGED <<schedVars, pipeVars, visVars>>
  \/ WriteMusicFile /\ UNCHANGED <<schedVars, pipeVars, visVars>>
  \/ WriteRenderFile /\ UNCHANGED <<schedVars, pipeVars, visVars>>
  \/ CleanupProject /\ UNCHANGED <<schedVars, pipeVars, visVars>>

NameSpec == NameInit /\ [][NameNext]_vars

\* Templates that lack a usable tempo or table
InvalidTemplates(tpl) ==
  {[tpl EXCEPT !.tempo = 0], [tpl EXCEPT !.tempo = 0 - tpl.tempo],
   [tpl EXCEPT !.scale = <<>>], [tpl EXCEPT !.bassNotes = <<>>],
   [tpl EXCEPT !.chords = <<>>]}

\* generateMusic(genre, outputPath): the template found for the genre, or a
\* template put into the registry that lacks a tempo or a table; a draw of
\* Math.random(), or none when test.js fixes the duration
SchedInit ==
  /\ sGenre \in Genres
  /\ \/ sTemplate = TemplateOf(sGenre) /\ sRandom \in RandomDraws \cup {NoDraw}
     \/ sTemplate \in InvalidTemplates(TemplateOf(sGenre)) /\ sRandom = NoDraw
  /\ sDuration = 0
  /\ sSeed \in 0 .. MaxSeed
  /\ sLayer = "duration"
  /\ events = {}
  /\ PipeInit
  /\ patched = FALSE
  /\ VisIdle
  /\ NameIdle

\* const duration = ...: drawn in generateMusic, 10 in the copy of test.js
PickDuration ==
  /\ sLayer = "duration"
  /\ sDuration' = IF sRandom = NoDraw THEN TestDuration
                  ELSE RandomDuration(sTemplate, sRandom)
  /\ sLayer' = "kick"
  /\ UNCHANGED <<sGenre, sTemplate, sRandom, sSeed, events, pipeVars, visVars, nameVars>>

\* Tone.Transport.bpm.value = tempo: whether Tone.js throws for a tempo that
\* is not positive is not fixed by the source; if it does, the error is
\* caught by generateMusic().catch(console.error)
SetTempoThrows ==
  /\ sLayer = "kick"
  /\ sTemplate.tempo <= 0
  /\ sLayer' = "caught"
  /\ UNCHANGED <<sGenre, sTemplate, sRandom, sDuration, sSeed, events, pipeVars, visVars, nameVars>>

ScheduleKick ==
  /\ sLayer = "kick"
  /\ events' = events \cup KickEvents(sTemplate, sDuration)
  /\ sLayer' = "hihat"
  /\ UNCHANGED <<sGenre, sTemplate, sRandom, sDuration, sSeed, pipeVars, visVars, nameVars>>

ScheduleHihat ==
  /\ sLayer = "hihat"
  /\ events' = events \cup HihatEvents(sTemplate, sDuration)
  /\ sLayer' = "bass"
  /\ UNCHANGED <<sGenre, sTemplate, sRandom, sDuration, sSeed, pipeVars, visVars, nameVars>>

ScheduleBass ==
  /\ sLayer = "bass"
  /\ events' = events \cup BassEvents(sTemplate, sDuration)
  /\ sLayer' = "melodic"
  /\ UNCHANGED <<sGenre, sTemplate, sRandom, sDuration, sSeed, pipeVars, visVars, nameVars>>

\* bass.triggerAttackRelease(undefined, ...) of the first bass note: whether
\* Tone.js throws is not fixed by the source
BassNoteThrows ==
  /\ sLayer = "bass"
  /\ Len(sTemplate.bassNotes) = 0
  /\ BassEvents(sTemplate, sDuration) # {}
  /\ sLayer' = "caught"
  /\ UNCHANGED <<sGenre, sTemplate, sRandom, sDuration, sSeed, events, pipeVars, visVars, nameVars>>

ScheduleMelodic ==
  /\ sLayer = "melodic"
  /\ events' = events \cup ChordEvents(sTemplate, sDuration)
                      \cup MelodyEvents(sTemplate, sDuration, sSeed)
  /\ sLayer' = "render"
  /\ UNCHANGED <<sGenre, sTemplate, sRandom, sDuration, sSeed, pipeVars, visVars, nameVars>>

\* synth.triggerAttackRelease(undefined, ...) in the first cycle: with no
\* chords the first call throws, with no scale the chord of cycle 0 is
\* scheduled and the first melody note throws
MelodicNoteThrows ==
  /\ sLayer = "melodic"
  /\ Len(sTemplate.chords) = 0 \/ Len(sTemplate.scale) = 0
  /\ MelodyCycles(sTemplate, sDuration) # {}
  /\ events' = IF Len(sTemplate.chords) = 0 THEN events
               ELSE events \cup {e \in ChordEvents(sTemplate, sDuration) : e.time[1] = 0}
  /\ sLayer' = "caught"
  /\ UNCHANGED <<sGenre, sTemplate, sRandom, sDuration, sSeed, pipeVars, visVars, nameVars>>

SchedNext ==
  \/ PickDuration
  \/ SetTempoThrows
  \/ ScheduleKick
  \/ ScheduleHihat
  \/ ScheduleBass
  \/ BassNoteThrows
  \/ ScheduleMelodic
  \/ MelodicNoteThrows

SchedSpec == SchedInit /\ [][SchedNext]_vars

Init ==
  /\ SchedIdle
  /\ PipeInit
  /\ VisIdle
  /\ NameIdle

Next ==
  \/ \E r \in Requests, genre \in RequestGenres, name \in OutputNames :
     \E duration \in DurationOf(TemplateOf(genre), patched) :
       Generate(r, genre, name, duration) /\ UNCHANGED <<schedVars, visVars, nameVars, patched>>
  \/ \E r \in Requests, outcome \in {"ok", "synthError", "crashed"} :
       ChildRun(r, outcome) /\ UNCHANGED <<schedVars, visVars, nameVars, patched>>
  \/ \E r \in Requests : MusicResolved(r) /\ UNCHANGED <<schedVars, visVars, nameVars, patched>>
  \/ \E r \in Requests : MusicRejected(r) /\ UNCHANGED <<schedVars, visVars, nameVars, patched>>
  \/ \E r \in Requests, k \in FrameOutcomes(totalFrames(IntroSeconds)) :
       GenerateIntro(r, k) /\ UNCHANGED <<schedVars, visVars, nameVars, patched>>
  \/ \E r \in Requests :
     \E k \in FrameOutcomes(totalFrames(musicMetadata[r].duration)) :
       GenerateVisuals(r, k) /\ UNCHANGED <<schedVars, visVars, nameVars, patched>>
  \/ \E r \in Requests, k \in FrameOutcomes(totalFrames(OutroSeconds)) :
       GenerateOutro(r, k) /\ UNCHANGED <<schedVars, visVars, nameVars, patched>>
  \/ \E r \in Requests : RenderCompleteStart(r) /\ UNCHANGED <<schedVars, visVars, nameVars, patched>>
  \/ \E r \in Requests : RenderIntroEnd(r) /\ UNCHANGED <<schedVars, visVars, nameVars, patched>>
  \/ \E r \in Requests : RenderMainEnd(r) /\ UNCHANGED <<schedVars, visVars, nameVars, patched>>
  \/ \E r \in Requests : RenderOutroEnd(r) /\ UNCHANGED <<schedVars, visVars, nameVars, patched>>
  \/ \E r \in Requests : RenderSegmentError(r) /\ UNCHANGED <<schedVars, visVars, nameVars, patched>>
  \/ \E r \in Requests : ConcatEnd(r) /\ UNCHANGED <<schedVars, visVars, nameVars, patched>>
  \/ \E r \in Requests, partial \in BOOLEAN :
       ConcatError(r, partial) /\ UNCHANGED <<schedVars, visVars, nameVars, patched>>
  \/ Interrupt /\ UNCHANGED <<schedVars, visVars, nameVars, patched>>

Spec == Init /\ [][Next]_vars

(***************************************************************************)
(* C1  For every registered genre and every whole-second duration d in the *)
(* genre's duration range, every event of the generated schedule (kick,    *)
(* hi-hat, bass, chord, melody) has a timestamp t with 0 <= t < d.         *)
(***************************************************************************)
InRange(g, d) ==
  genreTemplates[g].duration.min <= d /\ d <= genreTemplates[g].duration.max

Registered == sTemplate = genreTemplates[sGenre]

C1_AllTimestampsInDuration ==
  (Registered /\ InRange(sGenre, sDuration)) =>
    \A e \in events : TimeNonNeg(e.time) /\ TimeBefore(e.time, sDuration)

(***************************************************************************)
(* C2  After generate() finishes, the request's working directory          *)
(* output/<name> no longer exists, after a success and after a failure at  *)
(* any stage.                                                              *)
(***************************************************************************)
Settled(r) == pc[r] \in {"resolved", "rejected"}

C2_WorkDirRemovedWhenSettled ==
  [][\A r \in Requests :
       (~Settled(r) /\ Settled(r)') =>
         ~existsSync(fs', projectDir(args'[r].name))]_vars

(***************************************************************************)
(* C3  Whenever generate() fails, no partial output file exists at the     *)
(* final output location output/<name>.mp4 when the error reaches the      *)
(* caller.                                                                 *)
(***************************************************************************)
PartialFile(f, p) == f[p].kind = "file" /\ f[p].data.partial

C3_NoPartialOutputOnFailure ==
  [][\A r \in Requests :
       (pc[r] # "rejected" /\ pc'[r] = "rejected") =>
         ~PartialFile(fs', videoPath(args'[r].name))]_vars

(***************************************************************************)
(* C4  With two requests in flight, no file or directory that one request  *)
(* created or wrote is created, overwritten or deleted by the other one.   *)
(***************************************************************************)
C4_ExclusiveWorkingFiles ==
  [][\A r \in Requests, p \in Paths :
       (pc'[r] # pc[r] /\ fs'[p] # fs[p]) =>
         ~(\E q \in Requests \ {r} :
             InFlight(q) /\ existsSync(fs, p) /\ fs[p].by = q)]_vars

(***************************************************************************)
(* C5  If a segment encode or the concatenation fails inside               *)
(* renderComplete, then when renderComplete rejects intro.mp4, main.mp4,   *)
(* outro.mp4 and the temp_segments directory have been removed.            *)
(***************************************************************************)
C5_SegmentsRemovedWhenRenderRejects ==
  [][\A r \in Requests :
       (pc[r] \in {"encIntro", "encMain", "encOutro", "concat"} /\ pc'[r] = "rejected") =>
         \A p \in {<<"/", "output", "temp_segments">>,
                   <<"/", "output", "temp_segments", "intro.mp4">>,
                   <<"/", "output", "temp_segments", "main.mp4">>,
                   <<"/", "output", "temp_segments", "outro.mp4">>} :
           ~existsSync(fs', p)]_vars

C5_Witness ==
  \E r \in Requests :
    /\ pc[r] = "rejected"
    /\ err[r].stage = "concat"
    /\ ~existsSync(fs, <<"/", "output", "temp_segments">>)

(***************************************************************************)
(* C6  Within one request the stages run strictly one after another:       *)
(* music, intro frames, main frames, outro frames, the three encodes, the  *)
(* concatenation; all frame sets are complete before any encode starts and *)
(* at most one encode is in flight.                                        *)
(***************************************************************************)
IsLogPrefix(l) == Len(l) <= Len(CanonicalLog) /\ l = SubSeq(CanonicalLog, 1, Len(l))

C6_StagesStrictlySequential ==
  \A r \in Requests :
    /\ IsLogPrefix(log[r])
    /\ Cardinality(enc[r]) <= 1
    /\ enc[r] # {} =>
         /\ frameCount[r].intro = IntroSeconds * fps
         /\ frameCount[r].main = musicMetadata[r].duration * fps
         /\ frameCount[r].outro = OutroSeconds * fps

C6_Witness ==
  \E r \in Requests : pc[r] = "resolved" /\ log[r] = CanonicalLog

(***************************************************************************)
(* C7  The concatenation list handed to the encoder always holds exactly   *)
(* the three segments in the order intro, main, outro.                     *)
(***************************************************************************)
ExpectedConcatList ==
  <<[directive |-> "file", path |-> <<"/", "output", "temp_segments", "intro.mp4">>],
    [directive |-> "file", path |-> <<"/", "output", "temp_segments", "main.mp4">>],
    [directive |-> "file", path |-> <<"/", "output", "temp_segments", "outro.mp4">>]>>

C7_ConcatOrderFixed ==
  /\ fs[<<"/", "output", "concat_list.txt">>].kind = "file" =>
       fs[<<"/", "output", "concat_list.txt">>].data = ExpectedConcatList
  /\ \A n \in OutputNames :
       (fs[videoPath(n)].kind = "file" /\ ~fs[videoPath(n)].data.partial) =>
         fs[videoPath(n)].data.inputs = ExpectedConcatList

C7_Witness ==
  \E r \in Requests :
    /\ pc[r] = "resolved"
    /\ fs[videoPath(args[r].name)].kind = "file"
    /\ ~fs[videoPath(args[r].name)].data.partial

(***************************************************************************)
(* C8  If writing or drawing a single frame fails, the whole request       *)
(* fails: no later frame is generated, no segment is encoded, nothing is   *)
(* concatenated, and generate() rejects with that error.                   *)
(***************************************************************************)
\* Highest frame count that request r wrote into directory p
WrittenBy(f, p, r) ==
  IF f[p].kind # "dir" THEN 0
  ELSE LET mine == {i \in 1 .. Len(f[p].frames) : f[p].frames[i].by = r}
       IN IF mine = {} THEN 0
          ELSE f[p].frames[CHOOSE i \in mine : \A j \in mine : j <= i].upto

StageDir(stage, name) ==
  CASE stage = "intro" -> introDir(name)
    [] stage = "main" -> framesDir(name)
    [] OTHER -> outroDir(name)

LaterStages(stage) ==
  CASE stage = "intro" -> {"main", "outro"}
    [] stage = "main" -> {"outro"}
    [] OTHER -> {}

C8_FrameFailureAbortsRequest ==
  \A r \in Requests :
    err[r].stage \in {"intro", "main", "outro"} =>
      /\ pc[r] = "rejected"
      /\ enc[r] = {}
      /\ \A i \in 1 .. Len(log[r]) :
           log[r][i] \notin {"Rendering intro section...", "Rendering main content...",
                             "Rendering outro section...",
                             "Concatenating video segments...",
                             "VIDEO GENERATION COMPLETE!"}
      /\ WrittenBy(fs, StageDir(err[r].stage, args[r].name), r) <= err[r].frame
      /\ \A st \in LaterStages(err[r].stage) :
           WrittenBy(fs, StageDir(st, args[r].name), r) = 0

C8_Witness ==
  \E r \in Requests :
    /\ pc[r] = "rejected"
    /\ err[r] = [stage |-> "main", frame |-> 1]
    /\ WrittenBy(fs, framesDir(args[r].name), r) = 1

(***************************************************************************)
(* C9  If the synthesis collaborator reports an error while rendering the  *)
(* track, generateMusic rejects with it and generate() does not go on to   *)
(* frame generation: the failure is never reported as a successful music   *)
(* stage.                                                                  *)
(***************************************************************************)
C9_SynthesisFailureRejects ==
  \A r \in Requests :
    child[r] = "synthError" =>
      /\ pc[r] \in {"musicExit", "rejected", "aborted"}
      /\ \A i \in 1 .. Len(log[r]) : log[r][i] # "Music generated"

(***************************************************************************)
(* C10  For any successful generation the duration of the concatenated     *)
(* output equals introDuration + mainDuration + outroDuration within one   *)
(* frame interval (1/30 s).                                                *)
(***************************************************************************)
Abs(x) == IF x < 0 THEN -x ELSE x

C10_OutputDurationIsSum ==
  [][\A r \in Requests :
       (pc[r] = "concat" /\ pc'[r] = "resolved") =>
         Abs(fs'[videoPath(args[r].name)].data.duration
             - (frameCount[r].intro + musicMetadata[r].duration * fps
                + frameCount[r].outro)) <= 1]_vars

(***************************************************************************)
(* C11  The main segment of a request has exactly duration * fps frames    *)
(* (fps = 30), duration being the value the music stage wrote into the     *)
(* script for the schedule and the audio length; with the 10 s test        *)
(* duration the count is 300.                                              *)
(***************************************************************************)
C11_MainFrameCountIsDurationTimesFps ==
  [][\A r \in Requests :
       /\ (pc[r] = "idle" /\ pc'[r] = "music") =>
            fs'[scriptPath(audioPath(args'[r].name))].data.duration
              = musicMetadata'[r].duration
       /\ (pc[r] = "genMain" /\ pc'[r] = "genOutro") =>
            /\ frameCount'[r].main = musicMetadata[r].duration * 30
            /\ WrittenBy(fs', framesDir(args[r].name), r) = musicMetadata[r].duration * 30
            /\ musicMetadata[r].duration = 10 => frameCount'[r].main = 300]_vars

C11_Witness ==
  \E r \in Requests :
    /\ pc[r] = "genOutro"
    /\ musicMetadata[r].duration = 10
    /\ frameCount[r].main = 300
    /\ WrittenBy(fs, framesDir(args[r].name), r) = 300

(***************************************************************************)
(* C12  The intro and the outro of a request each have frameCount = 90,    *)
(* and each is encoded with silent audio of exactly frameCount / fps       *)
(* seconds, so the audio and the video of an edge segment have the same    *)
(* length, 3 s.                                                            *)
(***************************************************************************)
C12_EdgeSegmentsAudioEqualsVideo ==
  /\ \A r \in Requests :
       /\ frameCount[r].intro \in {0, 90}
       /\ frameCount[r].outro \in {0, 90}
       /\ pc[r] \in {"encIntro", "encMain", "encOutro", "concat", "resolved"} =>
            frameCount[r].intro = 90 /\ frameCount[r].outro = 90
  /\ \A p \in {<<"/", "output", "temp_segments", "intro.mp4">>,
               <<"/", "output", "temp_segments", "outro.mp4">>} :
       fs[p].kind = "file" =>
         /\ fs[p].data.audio = fs[p].data.video
         /\ fs[p].data.audio = 3 * 30

C12_Witness ==
  \E r \in Requests :
    /\ pc[r] = "concat"
    /\ fs[<<"/", "output", "temp_segments", "intro.mp4">>].kind = "file"
    /\ fs[<<"/", "output", "temp_segments", "intro.mp4">>].by = r
    /\ fs[<<"/", "output", "temp_segments", "outro.mp4">>].kind = "file"
    /\ fs[<<"/", "output", "temp_segments", "outro.mp4">>].by = r

(***************************************************************************)
(* C13  Over the frames of a title card the intro opacity                  *)
(* min(2 * frameIndex / totalFrames, 1) never decreases and the outro      *)
(* opacity max(1 - 2 * frameIndex / totalFrames, 0) never increases; they  *)
(* reach 1 and 0 at progress 0.5 and stay there, and every opacity lies in *)
(* [0, 1].                                                                 *)
(***************************************************************************)
C13_FadeMonotoneAndClamped ==
  /\ \A i \in 1 .. Len(introOpacity) :
       /\ RatLeq(<<0, 1>>, introOpacity[i]) /\ RatLeq(introOpacity[i], <<1, 1>>)
       /\ i > 1 => RatLeq(introOpacity[i - 1], introOpacity[i])
       /\ RatEq(introOpacity[i], <<1, 1>>) <=> 2 * (i - 1) >= vSeconds * 30
  /\ \A i \in 1 .. Len(outroOpacity) :
       /\ RatLeq(<<0, 1>>, outroOpacity[i]) /\ RatLeq(outroOpacity[i], <<1, 1>>)
       /\ i > 1 => RatLeq(outroOpacity[i], outroOpacity[i - 1])
       /\ RatEq(outroOpacity[i], <<0, 1>>) <=> 2 * (i - 1) >= vSeconds * 30

C13_Witness ==
  /\ vStage = "done"
  /\ vSeconds = 3
  /\ Len(introOpacity) = 90 /\ Len(outroOpacity) = 90
  /\ RatEq(introOpacity[46], <<1, 1>>) /\ ~RatEq(introOpacity[45], <<1, 1>>)
  /\ RatEq(outroOpacity[46], <<0, 1>>) /\ ~RatEq(outroOpacity[45], <<0, 1>>)

(***************************************************************************)
(* C14  The kick layer has events only on even beats i, 0 <= i <           *)
(* totalBeats, and their number equals totalBeats / 2; for electronic      *)
(* (128 BPM) at 10 s the number is floor(10 / (60 / 128)) / 2.             *)
(* As stated the count is exactly half of totalBeats.                      *)
(***************************************************************************)
EventsOf(role) == {e \in events : e.role = role}

\* The beat index i of an event scheduled at i * beatDuration
BeatOf(e) == e.time[1] \div 60

OnWholeBeat(e) == e.time[2] = genreTemplates[sGenre].tempo /\ e.time[1] % 60 = 0

KickOnEvenBeats ==
  \A e \in EventsOf("kick") :
    /\ OnWholeBeat(e)
    /\ BeatOf(e) % 2 = 0
    /\ 0 <= BeatOf(e)
    /\ BeatOf(e) < totalBeats(genreTemplates[sGenre].tempo, sDuration)

C15_WholePeriodFits ==
  Registered =>
  /\ \A e \in EventsOf("bass") :
       BeatOf(e) + 4 <= totalBeats(genreTemplates[sGenre].tempo, sDuration)
  /\ \A e \in EventsOf("chord") :
       BeatOf(e) + 8 <= totalBeats(genreTemplates[sGenre].tempo, sDuration)
  /\ \A e \in EventsOf("melody") :
       (BeatOf(e) \div 8) * 8 + 8 <= totalBeats(genreTemplates[sGenre].tempo, sDuration)

(***************************************************************************)
(* C16  For every registered genre and every duration the bass line has    *)
(* exactly one event every 4 beats: event k is at beat 4k and its pitch is *)
(* bassNotes[k mod len(bassNotes)].                                        *)
(***************************************************************************)
C16_BassEveryFourBeatsCyclingPitch ==
  (Registered /\ sLayer \in {"melodic", "render"}) =>
    LET bass == EventsOf("bass")
        beats == {BeatOf(e) : e \in bass}
    IN /\ \A e \in bass :
            /\ OnWholeBeat(e)
            /\ e.pitch = <<genreTemplates[sGenre].bassNotes[
                             ((BeatOf(e) \div 4) % Len(genreTemplates[sGenre].bassNotes)) + 1]>>
       /\ Cardinality(beats) = Cardinality(bass)
       /\ bass # {}
       /\ beats = {4 * k : k \in 0 .. Cardinality(bass) - 1}

C16_Witness ==
  /\ sLayer = "melodic"
  /\ sGenre = "hiphop"
  /\ \E e \in EventsOf("bass") : BeatOf(e) = 4 /\ e.pitch = <<"Eb2">>
  /\ \E e \in EventsOf("bass") : BeatOf(e) = 16 /\ e.pitch = <<"C2">>

(***************************************************************************)
(* C17  Melodic cycle k emits one chord, chords[k mod len(chords)], at     *)
(* beat 8k and exactly 4 melody notes, at beats 8k, 8k + 2, 8k + 4 and     *)
(* 8k + 6; every melody pitch is an element of the genre's scale.          *)
(***************************************************************************)
C17_CycleHasChordAndFourNotes ==
  (Registered /\ sLayer = "render") =>
    LET chordEvents == EventsOf("chord")
        melody == EventsOf("melody")
        cycles == {BeatOf(e) \div 8 : e \in chordEvents}
        tpl == genreTemplates[sGenre]
    IN /\ \A e \in chordEvents :
            /\ OnWholeBeat(e)
            /\ BeatOf(e) % 8 = 0
            /\ e.pitch = tpl.chords[((BeatOf(e) \div 8) % Len(tpl.chords)) + 1]
       /\ chordEvents # {}
       /\ Cardinality(cycles) = Cardinality(chordEvents)
       /\ cycles = 0 .. Cardinality(chordEvents) - 1
       /\ \A e \in melody :
            /\ OnWholeBeat(e)
            /\ Len(e.pitch) = 1
            /\ \E n \in 1 .. Len(tpl.scale) : e.pitch[1] = tpl.scale[n]
       /\ {BeatOf(e) : e \in melody} = {8 * k + o : k \in cycles, o \in {0, 2, 4, 6}}
       /\ Cardinality(melody) = 4 * Cardinality(cycles)

C17_Witness ==
  /\ sLayer = "render"
  /\ sGenre = "ambient"
  /\ \E e \in EventsOf("chord") :
       BeatOf(e) = 24 /\ e.pitch = <<"C4", "E4", "G4", "B4">>
  /\ \A b \in {24, 26, 28, 30} : \E e \in EventsOf("melody") : BeatOf(e) = b

(***************************************************************************)
(* C18  Scheduling fails with an InvalidTemplate error, emitting no event  *)
(* and writing no audio, whenever the template has tempo <= 0 or an empty  *)
(* scale, bassNotes or chord table.                                        *)
(***************************************************************************)
InvalidTemplate(tpl) ==
  \/ tpl.tempo <= 0
  \/ Len(tpl.scale) = 0
  \/ Len(tpl.bassNotes) = 0
  \/ Len(tpl.chords) = 0

C18_InvalidTemplateFails ==
  InvalidTemplate(sTemplate) => (events = {} /\ sLayer # "render")

(***************************************************************************)
(* C19  The durations generateMusic can select for a template are exactly  *)
(* the whole seconds of the inclusive range [duration.min, duration.max]   *)
(* (180..300 for every registered template): no selected value lies        *)
(* outside the range and both endpoints can be selected.                   *)
(***************************************************************************)
C19_SelectableDurationsAreInclusiveRange ==
  /\ (sRandom # NoDraw /\ sLayer # "duration") =>
       /\ sTemplate.duration.min <= sDuration
       /\ sDuration <= sTemplate.duration.max
  /\ {RandomDuration(sTemplate, r) : r \in RandomDraws}
       = sTemplate.duration.min .. sTemplate.duration.max
  /\ Registered => {RandomDuration(sTemplate, r) : r \in RandomDraws} = 180 .. 300

C19_Witness ==
  /\ sRandom = [kind |-> "nearOne", n |-> 1]
  /\ sDuration = 300
  /\ sLayer = "render"

(***************************************************************************)
(* C20  For any genre name that is not in the registry, _getVisualStyle    *)
(* returns the style of electronic and generateMusic uses the template of  *)
(* electronic, so within one request both lookups resolve to the           *)
(* parameters of the same genre.                                           *)
(***************************************************************************)
C20_UnregisteredGenreFallsBackToElectronic ==
  vGenre \notin Genres =>
    /\ vStage # "music" => vTemplate = genreTemplates["electronic"]
    /\ vStage \in {"frames", "outro", "done"} => vStyle = styles["electronic"]
    /\ vStage # "rejected"

(***************************************************************************)
(* C21  If a request is aborted from outside (process interrupt,           *)
(* cancellation) while any of its stages is running, its working           *)
(* directory and all its intermediate artifacts are still removed on that  *)
(* exit path.                                                              *)
(***************************************************************************)
C21_AbortRemovesWorkingFiles ==
  [][\A r \in Requests :
       (InFlight(r) /\ pc'[r] = "aborted") =>
         /\ ~existsSync(fs', projectDir(args[r].name))
         /\ ~existsSync(fs', tempDir(videoPath(args[r].name)))
         /\ ~existsSync(fs', concatListPath(videoPath(args[r].name)))]_vars

(***************************************************************************)
(* C22  In each of the three frame sets frame N is written to the file     *)
(* whose zero-padded 6-digit index is N; when a frame loop completes, the  *)
(* directory holds exactly one file for every index 0 .. frameCount - 1,   *)
(* without gaps and without duplicates.                                    *)
(***************************************************************************)
\* The number an image-sequence pattern %06d reads from the digits of a name
RECURSIVE DigitsValue(_)
DigitsValue(d) ==
  IF Len(d) = 0 THEN 0 ELSE DigitsValue(SubSeq(d, 1, Len(d) - 1)) * 10 + d[Len(d)]

FramesNumbered(files, prefix, count) ==
  /\ \A f \in files : f.prefix = prefix /\ Len(f.digits) = 6 /\ f.ext = ".png"
  /\ {DigitsValue(f.digits) : f \in files} = 0 .. count - 1
  /\ Cardinality(files) = count

C22_FrameFilesNumberedWithoutGaps ==
  /\ FramesNumbered(vFiles.intro, "intro_", Len(introOpacity))
  /\ FramesNumbered(vFiles.outro, "outro_", Len(outroOpacity))
  /\ FramesNumbered(vFiles.main, "frame_", Cardinality(vFiles.main))
  /\ vStage = "frames" => Cardinality(vFiles.main) = vFrameNum
  /\ vStage \in {"main", "frames", "outro", "done"} =>
       Cardinality(vFiles.intro) = vSeconds * 30
  /\ vStage \in {"outro", "done"} => Cardinality(vFiles.main) = 10 * 30
  /\ vStage = "done" => Cardinality(vFiles.outro) = vSeconds * 30

C22_Witness ==
  /\ vStage = "done"
  /\ Cardinality(vFiles.main) = 300
  /\ [prefix |-> "frame_", digits |-> <<0, 0, 0, 2, 9, 9>>, ext |-> ".png"] \in vFiles.main
  /\ [prefix |-> "intro_", digits |-> <<0, 0, 0, 0, 0, 0>>, ext |-> ".png"] \in vFiles.intro
  /\ [prefix |-> "outro_", digits |-> <<0, 0, 0, 0, 8, 9>>, ext |-> ".png"] \in vFiles.outro

(***************************************************************************)
(* C23  For every outputName given to generate(), names with path          *)
(* separators and the name '..' included, the project directory is a       *)
(* direct child of the output directory and the final video is a file      *)
(* directly inside the output directory, so no file is created or deleted  *)
(* outside the output directory.                                           *)
(***************************************************************************)
C23_RequestStaysInsideOutputDir ==
  oStep > 0 =>
    /\ dirname(projectDir(sanitizedName(oName))) = <<"/", "output">>
    /\ dirname(videoPath(sanitizedName(oName))) = <<"/", "output">>
    /\ \A p \in oTouched : IsPrefix(<<"/", "output">>, p)

(***************************************************************************)
(* C24  The genre names keyed in the musical template table are the genre  *)
(* names keyed in the visual style table: a genre present in one table is  *)
(* present in the other, so a request's template lookup and style lookup   *)
(* either both find the genre's own entry or both miss it.                 *)
(***************************************************************************)
C24_TablesKeyTheSameGenres ==
  vStage \in {"frames", "outro", "done"} =>
    /\ DOMAIN genreTemplates = DOMAIN styles
    /\ vGenre \in DOMAIN genreTemplates <=> vGenre \in DOMAIN styles
    /\ vGenre \in DOMAIN genreTemplates =>
         /\ vTemplate = genreTemplates[vGenre]
         /\ vStyle = styles[vGenre]

C24_Witness ==
  /\ vStage = "done"
  /\ vGenre = "techno"
  /\ vTemplate = genreTemplates["techno"]
  /\ vStyle = styles["techno"]
  /\ vStyle # styles["electronic"]

(***************************************************************************)
(* C25  At the moment the main segment of a request is encoded, the main   *)
(* frames directory holds exactly the files frame_000000 ..                *)
(* frame_(frameCount-1) this request wrote and nothing else, whatever      *)
(* requests came before, a request included that reuses the output name    *)
(* of an earlier request that failed after it wrote frames.                *)
(***************************************************************************)
C25_MainFramesAreOwnAtEncode ==
  [][\A r \in Requests :
       (pc[r] = "encMain" /\ pc'[r] = "encOutro") =>
         fs[framesDir(args[r].name)].frames =
           <<[upto |-> frameCount[r].main, by |-> r]>>]_vars

(***************************************************************************)
(* C26  _cleanupTempFiles deletes only the frames, intro and outro         *)
(* subdirectories and audio.wav of the project directory: every other      *)
(* entry of the project directory is left as it was, and the project       *)
(* directory itself is removed only when it is empty after those           *)
(* deletions.                                                              *)
(***************************************************************************)
CleanedEntries(dir) ==
  {join(dir, "frames"), join(dir, "intro"), join(dir, "outro"), join(dir, "audio.wav")}

EntriesOf(f, dir) == {p \in Paths : dirname(p) = dir /\ existsSync(f, p)}

C26_CleanupDeletesOnlyItsEntries ==
  [][\A r \in Requests :
       (pc[r] = "concat" /\ pc'[r] = "resolved") =>
         LET dir == projectDir(args[r].name)
         IN /\ \A p \in CleanedEntries(dir) : ~existsSync(fs', p)
            /\ \A p \in Paths :
                 (dirname(p) = dir /\ p \notin CleanedEntries(dir)) => fs'[p] = fs[p]
            /\ existsSync(fs', dir) <=>
                 (existsSync(fs, dir) /\ EntriesOf(fs', dir) # {})]_vars

C26_Witness ==
  \E r \in Requests :
    /\ pc[r] = "resolved"
    /\ existsSync(fs, projectDir(args[r].name))
    /\ EntriesOf(fs, projectDir(args[r].name)) = {scriptPath(audioPath(args[r].name))}

(***************************************************************************)
(* C27  Whenever generateMusic settles, after the child process running    *)
(* the script succeeded and after it failed, the temporary script file     *)
(* temp_music_script.js it wrote into the working directory no longer      *)
(* exists.                                                                 *)
(***************************************************************************)
C27_ScriptGoneWhenMusicSettles ==
  [][\A r \in Requests :
       (pc[r] = "musicExit" /\ pc'[r] \in {"genIntro", "rejected"}) =>
         ~existsSync(fs', scriptPath(audioPath(args[r].name)))]_vars

C27_Witness ==
  \E r \in Requests, q \in Requests :
    /\ pc[r] = "genIntro"
    /\ child[r] = "ok"
    /\ pc[q] = "rejected"
    /\ child[q] = "crashed"
    /\ err[q].stage = "music"
    /\ ~existsSync(fs, scriptPath(audioPath(args[r].name)))
    /\ ~existsSync(fs, scriptPath(audioPath(args[q].name)))

====
